---- MODULE Spec2Model ----
(***************************************************************************)
(* Model of the xloockup lookup core: utils.validate_phone_number,         *)
(* TruecallerAPI.search_number and TruecallerAPI._parse_response.          *)
(*                                                                         *)
(* Strings that the code inspects character by character (phone numbers)   *)
(* are sequences of one-character strings.  Strings the code only passes   *)
(* through or tests for emptiness (names, carriers, messages) are TLA+     *)
(* strings.                                                                *)
(***************************************************************************)
EXTENDS Integers, Sequences, FiniteSets, TLC

VARIABLES
    \* validate_phone_number applied on its own
    v_pc, v_number, v_first, v_second,
    \* _parse_response applied on its own
    p_pc, p_data, p_number, p_now, p_result,
    \* a TruecallerAPI instance and the search_number call in progress
    pc, request_count, phone_number, country_code, cleaned_number,
    next_endpoint, response, requests_sent, throttled, returned,
    \* a bulk_search call in progress and the summary bulk_lookup makes of it
    b_pc, b_numbers, b_cc, b_i, b_results, b_calls, b_delays, b_summary,
    \* display_result applied on its own
    d_pc, d_result, d_shown

v_vars == <<v_pc, v_number, v_first, v_second>>

p_vars == <<p_pc, p_data, p_number, p_now, p_result>>

s_vars == <<pc, request_count, phone_number, country_code, cleaned_number,
            next_endpoint, response, requests_sent, throttled, returned>>

b_vars == <<b_pc, b_numbers, b_cc, b_i, b_results, b_calls, b_delays, b_summary>>

d_vars == <<d_pc, d_result, d_shown>>

vars == <<v_vars, p_vars, s_vars, b_vars, d_vars>>

(***************************************************************************)
(* Bounds of the explored inputs.                                          *)
(***************************************************************************)
MaxHead == 2
MaxFill == 14
MaxTail == 1
MaxAddrs == 2
MaxRest == 1
MaxTime == 2
MaxSearchFill == 10
MaxRequests == 3
MaxBatch == 3
MaxScore == 100

(***************************************************************************)
(* Characters.  Python's \d in a str pattern matches every Unicode decimal *)
(* digit, so the non-ASCII digit U+0663 survives the re.sub as well.       *)
(***************************************************************************)
AsciiDigits == {"0", "1", "2", "3", "4", "5", "6", "7", "8", "9"}

UnicodeDigits == {"U+0663"}

HeadChars == {"0", "1", "9", "+", "-", "U+0663"}

TailChars == {"5", "+"}

FillChar == "7"

SeqsUpTo(S, n) == UNION {[1..k -> S] : k \in 0..n}

Fill(n) == [i \in 1..n |-> FillChar]

RawNumbers ==
    {h \o Fill(n) \o t : h \in SeqsUpTo(HeadChars, MaxHead),
                         n \in 0..MaxFill,
                         t \in SeqsUpTo(TailChars, MaxTail)}

startswith(s, p) == Len(s) >= Len(p) /\ SubSeq(s, 1, Len(p)) = p

\* s[k:] of Python, k counted from 0
SliceFrom(s, k) == SubSeq(s, k + 1, Len(s))

\* re.sub(r'[^\d+]', '', s): drop everything that is neither a digit nor '+'
KeptByPattern(c) == c \in AsciiDigits \cup UnicodeDigits \cup {"+"}

StripNonDigitPlus(s) == SelectSeq(s, KeptByPattern)

Invalid(msg) == [is_valid |-> FALSE, cleaned |-> <<>>, message |-> msg]

Valid(c) == [is_valid |-> TRUE, cleaned |-> c, message |-> ""]

\* Reformat with the last branch taken whether or not a '+' is already there
Reformat_PlusAlways(cleaned) ==
    IF startswith(cleaned, <<"0", "1">>) /\ Len(cleaned) = 11
    THEN <<"+", "8", "8", "0">> \o SliceFrom(cleaned, 1)
    ELSE IF startswith(cleaned, <<"1">>) /\ Len(cleaned) = 10
    THEN <<"+", "8", "8", "0", "1">> \o cleaned
    ELSE IF startswith(cleaned, <<"9", "1">>) /\ Len(cleaned) = 12
    THEN <<"+">> \o cleaned
    ELSE <<"+">> \o cleaned

\* Reformat with the first branch keeping the trunk zero it should drop
Reformat_KeepTrunkZero(cleaned) ==
    IF startswith(cleaned, <<"0", "1">>) /\ Len(cleaned) = 11
    THEN <<"+", "8", "8", "0">> \o cleaned
    ELSE IF startswith(cleaned, <<"1">>) /\ Len(cleaned) = 10
    THEN <<"+", "8", "8", "0", "1">> \o cleaned
    ELSE IF startswith(cleaned, <<"9", "1">>) /\ Len(cleaned) = 12
    THEN <<"+">> \o cleaned
    ELSE IF ~startswith(cleaned, <<"+">>)
    THEN <<"+">> \o cleaned
    ELSE cleaned

\* the if/elif chain of validate_phone_number
Reformat(cleaned) ==
    IF startswith(cleaned, <<"0", "1">>) /\ Len(cleaned) = 11
    THEN <<"+", "8", "8", "0">> \o SliceFrom(cleaned, 1)
    ELSE IF startswith(cleaned, <<"1">>) /\ Len(cleaned) = 10
    THEN <<"+", "8", "8", "0", "1">> \o cleaned
    ELSE IF startswith(cleaned, <<"9", "1">>) /\ Len(cleaned) = 12
    THEN <<"+">> \o cleaned
    ELSE IF ~startswith(cleaned, <<"+">>)
    THEN <<"+">> \o cleaned
    ELSE cleaned

validate_phone_number(number) ==
    LET stripped == StripNonDigitPlus(number) IN
    IF stripped = <<>>
    THEN Invalid("Empty phone number")
    ELSE LET cleaned == Reformat(stripped) IN
         IF Len(cleaned) < 10
         THEN Invalid("Phone number too short")
         ELSE Valid(cleaned)

(***************************************************************************)
(* JSON values.  A value of unknown shape carries a tag t; a Python dict   *)
(* is a function from its keys, a list is a sequence.  Inside a candidate  *)
(* the fields have the types the upstream documents: name, carrier, city   *)
(* and the like are strings, phones/addresses/internetAddresses are lists  *)
(* of dicts, and an 'id' is a sequence of characters because the code      *)
(* lower-cases and searches it.                                            *)
(***************************************************************************)
EmptyDict == [x \in {} |-> x]

JNull == [t |-> "null"]

JObject(d) == [t |-> "object", v |-> d]

JArray(l) == [t |-> "array", v |-> l]

\* Python truthiness of None, a dict and a list
Truthy(j) ==
    CASE j.t = "null" -> FALSE
      [] j.t = "object" -> DOMAIN j.v # {}
      [] j.t = "array" -> Len(j.v) > 0

\* k in j: key test on a dict, element test on a list (no element of the
\* lists considered here is the string k), TypeError on None
HasKey(j, k) == j.t = "object" /\ k \in DOMAIN j.v

\* d.get(k, default)
Get(d, k, default) == IF k \in DOMAIN d THEN d[k] ELSE default

Error(msg) == [error |-> msg]

UpperCase == <<"A", "E", "I", "L", "M">>

LowerCase == <<"a", "e", "i", "l", "m">>

LowerChar(c) ==
    IF \E i \in DOMAIN UpperCase : UpperCase[i] = c
    THEN LowerCase[CHOOSE i \in DOMAIN UpperCase : UpperCase[i] = c]
    ELSE c

\* str.lower()
lower(s) == [i \in DOMAIN s |-> LowerChar(s[i])]

\* sub in s
Contains(s, sub) ==
    \E i \in 1..(Len(s) - Len(sub) + 1) : SubSeq(s, i, i + Len(sub) - 1) = sub

NameFields(item) ==
    IF "name" \in DOMAIN item /\ item.name # ""
    THEN [name |-> item.name]
    ELSE EmptyDict

PhoneFields(item) ==
    IF "phones" \in DOMAIN item /\ item.phones # <<>>
    THEN LET phone_info == item.phones[1] IN
         [phone |-> Get(phone_info, "e164Format", ""),
          carrier |-> Get(phone_info, "carrier", "Unknown Carrier"),
          type |-> Get(phone_info, "type", "Unknown Type")]
    ELSE EmptyDict

AddressFields(item) ==
    IF "addresses" \in DOMAIN item /\ item.addresses # <<>>
    THEN LET address_info == item.addresses[1] IN
         [address |-> Get(address_info, "city", ""),
          country |-> Get(address_info, "countryCode", "")]
         @@ (IF "address" \in DOMAIN address_info
             THEN [full_address |-> address_info.address]
             ELSE EmptyDict)
    ELSE EmptyDict

IsEmailId(internet_addr) ==
    LET addr_id == lower(Get(internet_addr, "id", <<>>)) IN
    Contains(addr_id, <<"e", "m", "a", "i", "l">>) \/ Contains(addr_id, <<"@">>)

\* the for loop with its break: the first entry that looks like an e-mail
EmailFields(item) ==
    IF "internetAddresses" \in DOMAIN item /\ item.internetAddresses # <<>>
    THEN LET l == item.internetAddresses
             hits == {i \in DOMAIN l : IsEmailId(l[i])}
         IN IF hits = {}
            THEN EmptyDict
            ELSE LET first == CHOOSE i \in hits : \A j \in hits : i <= j
                 IN [email |-> Get(l[first], "id", <<>>)]
    ELSE EmptyDict

ScoreFields(item) ==
    [score |-> Get(item, "score", 0),
     spam_score |-> Get(item, "spamScore", 0),
     spam_type |-> Get(item, "spamType", "Not Spam"),
     search_source |-> Get(item, "source", "Truecaller"),
     active |-> Get(item, "active", TRUE)]

UsefulKeys == {"name", "carrier", "address", "email"}

\* lines 111-159: the record built from the first result item
BuildResult(item, searched, now) ==
    LET result == [searched_number |-> searched, timestamp |-> now]
                  @@ NameFields(item) @@ PhoneFields(item)
                  @@ AddressFields(item) @@ EmailFields(item)
                  @@ ScoreFields(item)
    IN IF ~\E key \in UsefulKeys : key \in DOMAIN result
       THEN Error("No identifiable information found")
       ELSE result

ParseFailure == Error("Failed to parse API response")

\* _parse_response taking the last result item instead of the first
_parse_response_LastItem(data, searched, now) ==
    IF ~Truthy(data)
    THEN Error("Empty response from API")
    ELSE IF ~HasKey(data, "data") \/ ~Truthy(data.v.data)
    THEN Error("No data available for this number")
    ELSE IF data.v.data.t # "array"
    THEN ParseFailure
    ELSE LET item == data.v.data.v[Len(data.v.data.v)] IN
         IF item.t # "object"
         THEN ParseFailure
         ELSE BuildResult(item.v, searched, now)

\* data is the decoded body, now the value of time.strftime
_parse_response(data, searched, now) ==
    IF ~Truthy(data)
    THEN Error("Empty response from API")
    ELSE IF ~HasKey(data, "data") \/ ~Truthy(data.v.data)
    THEN Error("No data available for this number")
    ELSE IF data.v.data.t # "array"
    THEN ParseFailure \* data['data'][0] on a dict: KeyError, caught at line 161
    ELSE LET item == data.v.data.v[1] IN
         IF item.t # "object"
         THEN ParseFailure \* 'name' in None: TypeError, caught at line 161
         ELSE BuildResult(item.v, searched, now)

(***************************************************************************)
(* Decoded bodies the extractor is applied to.                             *)
(***************************************************************************)
NameOpts == {EmptyDict, [name |-> ""], [name |-> "Alice"]}

PhoneOpts ==
    {EmptyDict,
     [phones |-> <<>>],
     [phones |-> <<EmptyDict>>],
     [phones |-> <<[carrier |-> "", type |-> "MOBILE"]>>],
     [phones |-> <<[carrier |-> "Acme", e164Format |-> "+1", type |-> "MOBILE"],
                   [carrier |-> "Other"]>>]}

AddressOpts ==
    {EmptyDict,
     [addresses |-> <<>>],
     [addresses |-> <<[countryCode |-> "BD"]>>],
     [addresses |-> <<[city |-> "", countryCode |-> "BD"]>>],
     [addresses |-> <<[city |-> "Dhaka", countryCode |-> "BD", address |-> "Road 1"]>>]}

InternetAddr ==
    {EmptyDict,
     [id |-> <<"a", "@", "b">>],
     [id |-> <<"E", "m", "A", "i", "L">>],
     [id |-> <<"w", "e", "b">>]}

InternetOpts ==
    {EmptyDict} \cup {[internetAddresses |-> l] : l \in SeqsUpTo(InternetAddr, MaxAddrs)}

ScoreOpts ==
    {EmptyDict,
     [score |-> 85, spamScore |-> 71, spamType |-> "Sales", source |-> "web",
      active |-> FALSE]}

\* a candidate, put together from the fields it has
Candidate(n, ph, a, i, sc) == n @@ ph @@ a @@ i @@ sc

\* candidates that follow the first one in a 'data' array
LaterCandidates ==
    {JNull, JObject(EmptyDict),
     JObject([name |-> "Bob", phones |-> <<[carrier |-> "Zed"]>>])}

\* bodies without a candidate
PlainBodies ==
    {JNull, JObject(EmptyDict), JArray(<<>>), JArray(<<JObject([name |-> "Alice"])>>),
     JObject([status |-> "ok"]),
     JObject([data |-> JNull]), JObject([data |-> JArray(<<>>)]),
     JObject([data |-> JObject(EmptyDict)]),
     JObject([data |-> JArray(<<JNull>>)])}

\* 'data' as an array that starts with the candidate c
ArrayBody(c, rest) == JObject([data |-> JArray(<<JObject(c)>> \o rest)])

\* 'data' as the candidate c itself
ObjectBody(c) == JObject([data |-> JObject(c)])

SearchedNumbers ==
    {<<"+", "8", "8", "0", "1", "7", "1", "2", "3", "4", "5", "6", "7", "8">>}

Timestamps == 1..MaxTime

\* the parts of the state a specification does not use
NotRun == Invalid("not run")

ValidateOff ==
    v_pc = "off" /\ v_number = <<>> /\ v_first = NotRun /\ v_second = NotRun

ParseOff ==
    /\ p_pc = "off" /\ p_data = JNull /\ p_number = <<>> /\ p_now = 0
    /\ p_result = EmptyDict

(***************************************************************************)
(* TruecallerAPI.search_number.                                            *)
(***************************************************************************)
Endpoints ==
    <<"https://search5-noneu.truecaller.com/v2/search",
      "https://search5.truecaller.com/v2/search",
      "https://api4.truecaller.com/v1/search">>

\* config.COUNTRY_CODES: the calling code each country hint stands for
CallingCode ==
    ("BD" :> <<"8", "8", "0">>) @@ ("IN" :> <<"9", "1">>) @@ ("US" :> <<"1">>)
    @@ ("UK" :> <<"4", "4">>) @@ ("AE" :> <<"9", "7", "1">>)
    @@ ("SA" :> <<"9", "6", "6">>) @@ ("PK" :> <<"9", "2">>) @@ ("CA" :> <<"1">>)
    @@ ("AU" :> <<"6", "1">>) @@ ("SG" :> <<"6", "5">>)

Hints == {"BD", "IN"}

SearchHeads ==
    {<<>>, <<"0">>, <<"0", "1">>, <<"1">>, <<"9", "1">>, <<"+">>, <<"+", "0">>,
     <<"+", "8", "8", "0">>, <<"-">>}

SearchTails == {<<>>, <<"5">>}

\* no filler at all, or enough of it to reach the lengths the code tests for
SearchFills == {0} \cup {n \in 0..MaxSearchFill : n + 2 >= MaxSearchFill}

SearchNumbers ==
    {h \o Fill(n) \o t : h \in SearchHeads, n \in SearchFills, t \in SearchTails}

None == [is_none |-> TRUE, dict |-> EmptyDict]

NoSummary == [raised |-> FALSE, successful |-> 0, failed |-> 0]

Dict(d) == [is_none |-> FALSE, dict |-> d]

NoResponse == [t |-> "None"]

Response(status, body) == [t |-> "Response", status_code |-> status, body |-> body]

\* what response.json() meets: a body that decodes to value, or one that does not
JsonBody(value) == [is_json |-> TRUE, value |-> value, raw |-> ""]

\* a body that does not decode, kept as the text the server sent
NotJson(raw) == [is_json |-> FALSE, value |-> JNull, raw |-> raw]

\* bodies json.loads rejects, each for a different reason
UndecodableBodies == {"", "   ", "{", "{\"data\": []} x"}

Statuses == {200, 201, 304, 404, 429, 500}

SearchBodies ==
    {NotJson(raw) : raw \in UndecodableBodies}
    \cup
    {JsonBody(JNull),
     JsonBody(JObject([data |-> JArray(<<>>)])),
     JsonBody(JObject([data |-> JArray(<<JObject([score |-> 10])>>)])),
     JsonBody(JObject([data |-> JObject([name |-> "Alice"])])),
     JsonBody(JObject([data |-> JArray(<<JObject(
        [name |-> "Alice",
         phones |-> <<[carrier |-> "Acme", e164Format |-> "+1"]>>])>>)]))}

\* what one session.post can do: raise, or return a response
Outcomes ==
    {[t |-> "Timeout"], [t |-> "ConnectionError"]}
    \cup {Response(st, NotJson("")) : st \in Statuses \ {200}}
    \cup {Response(200, b) : b \in SearchBodies}

\* lines 27-31
BDFix(cc, cleaned) ==
    IF cc = "BD" /\ startswith(cleaned, <<"+", "0">>)
    THEN <<"+", "8", "8">> \o SliceFrom(cleaned, 2)
    ELSE IF cc = "BD" /\ startswith(cleaned, <<"0">>)
    THEN <<"+", "8", "8">> \o SliceFrom(cleaned, 1)
    ELSE cleaned

\* bool(response): None is false, and requests.Response.__bool__ is
\* Response.ok, which is false for the status codes 400-599
ResponseTruthy(r) ==
    r.t = "Response" /\ ~(400 <= r.status_code /\ r.status_code < 600)

\* str(e) of the JSONDecodeError response.json() raises for an undecodable body
JSONDecodeErrorText(raw) ==
    CASE raw = "" -> "Expecting value: line 1 column 1 (char 0)"
      [] raw = "   " -> "Expecting value: line 1 column 4 (char 3)"
      [] raw = "{" ->
            "Expecting property name enclosed in double quotes: line 1 column 2 (char 1)"
      [] raw = "{\"data\": []} x" -> "Extra data: line 1 column 14 (char 13)"

\* AfterLoop with a lookup that got no response reported as a timeout
AfterLoop_TimeoutError(r, cleaned, now) ==
    IF r.t # "Response"
    THEN Error("Request timeout")
    ELSE IF ~ResponseTruthy(r)
    THEN Error("All API endpoints failed")
    ELSE IF r.status_code = 200
    THEN IF r.body.is_json
         THEN _parse_response(r.body.value, cleaned, now)
         ELSE Error(JSONDecodeErrorText(r.body.raw))
    ELSE Error("API returned status " \o ToString(r.status_code))

\* lines 72-90 (and line 98 for a body that is not JSON)
AfterLoop(r, cleaned, now) ==
    IF ~ResponseTruthy(r)
    THEN Error("All API endpoints failed")
    ELSE IF r.status_code = 200
    THEN IF r.body.is_json
         THEN _parse_response(r.body.value, cleaned, now)
         ELSE Error(JSONDecodeErrorText(r.body.raw))
    ELSE IF r.status_code = 404
    THEN Error("Number not found in Truecaller database")
    ELSE IF r.status_code = 429
    THEN Error("Rate limited - try again later")
    ELSE Error("API returned status " \o ToString(r.status_code))

(***************************************************************************)
(* utils.display_result: the bands it prints for the spam score and the    *)
(* confidence score of the first entry of result['data'].                  *)
(***************************************************************************)
\* SpamStatus with the upper threshold included in the high band
SpamStatus_AtLeast(spam_score) ==
    IF spam_score >= 70 THEN "HIGH SPAM"
    ELSE IF spam_score > 40 THEN "MEDIUM SPAM"
    ELSE "CLEAN"

\* lines 158-163
SpamStatus(spam_score) ==
    IF spam_score > 70 THEN "HIGH SPAM"
    ELSE IF spam_score > 40 THEN "MEDIUM SPAM"
    ELSE "CLEAN"

\* lines 170-175: the colour of the confidence line
ScoreColor(score) ==
    IF score > 80 THEN "success"
    ELSE IF score > 60 THEN "warning"
    ELSE "error"

NothingShown == [printed |-> "nothing", spam_status |-> "", score_color |-> ""]

ErrorShown == [printed |-> "error", spam_status |-> "", score_color |-> ""]

\* result is None or a dict; what display_result prints for it
display_result(result) ==
    IF result.is_none \/ DOMAIN result.dict = {}
    THEN ErrorShown
    ELSE IF "error" \in DOMAIN result.dict
    THEN ErrorShown
    ELSE LET data == IF "data" \in DOMAIN result.dict /\ result.dict.data # <<>>
                     THEN result.dict.data[1]
                     ELSE EmptyDict
         IN [printed |-> "results",
             spam_status |-> SpamStatus(Get(data, "spamScore", 0)),
             score_color |-> ScoreColor(Get(data, "score", 0))]

Scores == 0..MaxScore

SpamOpts == {EmptyDict} \cup {[spamScore |-> n] : n \in Scores}

ConfidenceOpts == {EmptyDict} \cup {[score |-> n] : n \in Scores}

DisplayOff == d_pc = "off" /\ d_result = None /\ d_shown = NothingShown

BulkOff ==
    /\ b_pc = "off" /\ b_numbers = <<>> /\ b_cc = "" /\ b_i = 0
    /\ b_results = EmptyDict /\ b_calls = <<>> /\ b_delays = <<>>
    /\ b_summary = NoSummary

Payload(endpoint) ==
    [endpoint |-> endpoint, q |-> cleaned_number, countryCode |-> country_code]

SearchOff ==
    /\ pc = "off" /\ request_count = 0 /\ phone_number = <<>> /\ country_code = ""
    /\ cleaned_number = <<>> /\ next_endpoint = 1 /\ response = NoResponse
    /\ requests_sent = <<>> /\ throttled = FALSE /\ returned = None

\* TruecallerAPI.__init__
SearchInit ==
    /\ pc = "ready" /\ request_count = 0 /\ phone_number = <<>> /\ country_code = ""
    /\ cleaned_number = <<>> /\ next_endpoint = 1 /\ response = NoResponse
    /\ requests_sent = <<>> /\ throttled = FALSE /\ returned = None

\* search_number_begin with the counter advanced before the number is validated
search_number_begin_CountFirst(number, cc) ==
    /\ pc \in {"ready", "returned"}
    /\ request_count < MaxRequests
    /\ phone_number' = number
    /\ country_code' = cc
    /\ requests_sent' = <<>>
    /\ response' = NoResponse
    /\ next_endpoint' = 1
    /\ request_count' = request_count + 1
    /\ throttled' = (request_count' % 3 = 0)
    /\ returned' = None
    /\ LET v == validate_phone_number(number) IN
       IF ~v.is_valid
       THEN pc' = "returned" /\ cleaned_number' = <<>>
       ELSE pc' = "endpoints" /\ cleaned_number' = BDFix(cc, v.cleaned)
    /\ UNCHANGED <<v_vars, p_vars>>

\* search_number_begin with the pause decided before the counter is advanced
search_number_begin_PauseEarly(number, cc) ==
    /\ pc \in {"ready", "returned"}
    /\ request_count < MaxRequests
    /\ phone_number' = number
    /\ country_code' = cc
    /\ requests_sent' = <<>>
    /\ response' = NoResponse
    /\ next_endpoint' = 1
    /\ returned' = None
    /\ LET v == validate_phone_number(number) IN
       IF ~v.is_valid
       THEN /\ pc' = "returned"
            /\ cleaned_number' = <<>>
            /\ throttled' = FALSE
            /\ UNCHANGED request_count
       ELSE /\ cleaned_number' = BDFix(cc, v.cleaned)
            /\ throttled' = (request_count % 3 = 0)
            /\ request_count' = request_count + 1
            /\ pc' = "endpoints"
    /\ UNCHANGED <<v_vars, p_vars>>

\* lines 21-58: validation, the Bangladesh fix, the counter and its pause
search_number_begin(number, cc) ==
    /\ pc \in {"ready", "returned"}
    /\ request_count < MaxRequests
    /\ phone_number' = number
    /\ country_code' = cc
    /\ requests_sent' = <<>>
    /\ response' = NoResponse
    /\ next_endpoint' = 1
    /\ LET v == validate_phone_number(number) IN
       IF ~v.is_valid
       THEN /\ returned' = None
            /\ pc' = "returned"
            /\ cleaned_number' = <<>>
            /\ throttled' = FALSE
            /\ UNCHANGED request_count
       ELSE /\ cleaned_number' = BDFix(cc, v.cleaned)
            /\ request_count' = request_count + 1
            /\ throttled' = (request_count' % 3 = 0)
            /\ pc' = "endpoints"
            /\ returned' = None \* nothing returned yet
    /\ UNCHANGED <<v_vars, p_vars>>

\* one pass of the for loop that goes on to the next endpoint after a 200
try_endpoint_NoBreak(outs) ==
    /\ pc = "endpoints"
    /\ \E outcome \in outs :
         /\ requests_sent' = Append(requests_sent, Payload(Endpoints[next_endpoint]))
         /\ response' = IF outcome.t = "Response" THEN outcome ELSE response
         /\ IF next_endpoint = Len(Endpoints)
            THEN pc' = "after_loop" /\ UNCHANGED next_endpoint
            ELSE pc' = "endpoints" /\ next_endpoint' = next_endpoint + 1
    /\ UNCHANGED <<request_count, phone_number, country_code, cleaned_number,
                   throttled, returned, v_vars, p_vars>>

\* lines 59-70: one pass of the for loop, session.post ending in one of outs
try_endpoint(outs) ==
    /\ pc = "endpoints"
    /\ \E outcome \in outs :
         /\ requests_sent' = Append(requests_sent, Payload(Endpoints[next_endpoint]))
         /\ response' = IF outcome.t = "Response" THEN outcome ELSE response
         /\ IF (outcome.t = "Response" /\ outcome.status_code = 200)
               \/ next_endpoint = Len(Endpoints)
            THEN pc' = "after_loop" /\ UNCHANGED next_endpoint
            ELSE pc' = "endpoints" /\ next_endpoint' = next_endpoint + 1
    /\ UNCHANGED <<request_count, phone_number, country_code, cleaned_number,
                   throttled, returned, v_vars, p_vars>>

\* lines 72-100: the value search_number returns
search_number_return ==
    /\ pc = "after_loop"
    /\ \E now \in Timestamps :
         returned' = Dict(AfterLoop(response, cleaned_number, now))
    /\ pc' = "returned"
    /\ UNCHANGED <<request_count, phone_number, country_code, cleaned_number,
                   next_endpoint, response, requests_sent, throttled, v_vars, p_vars>>

Init == ValidateOff /\ ParseOff /\ BulkOff /\ DisplayOff /\ SearchInit

Next ==
    \/ /\ \E number \in SearchNumbers, cc \in Hints : search_number_begin(number, cc)
       /\ UNCHANGED <<b_vars, d_vars>>
    \/ try_endpoint(Outcomes) /\ UNCHANGED <<b_vars, d_vars>>
    \/ search_number_return /\ UNCHANGED <<b_vars, d_vars>>

Spec == Init /\ [][Next]_vars

(***************************************************************************)
(* TruecallerAPI.bulk_search, one step per statement of its loop, and the  *)
(* summary bulk_lookup computes from what it returns.  Each lookup is the  *)
(* search_number call above, run to its return before the loop goes on.    *)
(***************************************************************************)
BulkNumbers ==
    { <<"1", "2">>,
      <<"+", "1", "2", "3", "4", "5", "6", "7", "8", "9", "0", "1">>,
      <<"0", "1", "7", "1", "2", "3", "4", "5", "6", "7", "8">> }

BulkHints == {"IN"}

BulkOutcomes ==
    { NoResponse,
      Response(404, NotJson("")),
      Response(200, JsonBody(JObject([data |-> JArray(<<JObject([name |-> "Alice"])>>)]))) }

BulkInit ==
    /\ b_pc = "idle" /\ b_numbers = <<>> /\ b_cc = "" /\ b_i = 0
    /\ b_results = EmptyDict /\ b_calls = <<>> /\ b_delays = <<>>
    /\ b_summary = NoSummary

\* lines 165-170: results = {}, total = len(phone_numbers)
bulk_search_begin(phone_numbers, cc) ==
    /\ b_pc = "idle"
    /\ b_numbers' = phone_numbers
    /\ b_cc' = cc
    /\ b_i' = IF phone_numbers = <<>> THEN 0 ELSE 1
    /\ b_results' = EmptyDict
    /\ b_calls' = <<>>
    /\ b_delays' = <<>>
    /\ b_pc' = IF phone_numbers = <<>> THEN "done" ELSE "loop"
    /\ UNCHANGED <<b_summary, v_vars, p_vars, s_vars>>

\* line 174, the call: self.search_number(number, country_code)
bulk_search_call ==
    /\ b_pc = "loop"
    /\ search_number_begin(b_numbers[b_i], b_cc)
    /\ b_calls' = Append(b_calls, b_numbers[b_i])
    /\ b_pc' = "lookup"
    /\ UNCHANGED <<b_numbers, b_cc, b_i, b_results, b_delays, b_summary>>

\* bulk_search_store that ends the batch at the first lookup without a record
bulk_search_store_StopOnFailure ==
    /\ b_pc = "lookup"
    /\ pc = "returned"
    /\ b_results' = (b_numbers[b_i] :> returned) @@ b_results
    /\ b_delays' = IF b_i < Len(b_numbers) THEN Append(b_delays, b_i) ELSE b_delays
    /\ b_i' = IF b_i < Len(b_numbers) THEN b_i + 1 ELSE b_i
    /\ b_pc' = IF b_i < Len(b_numbers)
                  /\ ~returned.is_none /\ "error" \notin DOMAIN returned.dict
               THEN "loop" ELSE "done"
    /\ UNCHANGED <<b_numbers, b_cc, b_calls, b_summary, v_vars, p_vars, s_vars>>

\* bulk_search_store that sleeps after every lookup, the last one too
bulk_search_store_DelayAlways ==
    /\ b_pc = "lookup"
    /\ pc = "returned"
    /\ b_results' = (b_numbers[b_i] :> returned) @@ b_results
    /\ b_delays' = Append(b_delays, b_i)
    /\ b_i' = IF b_i < Len(b_numbers) THEN b_i + 1 ELSE b_i
    /\ b_pc' = IF b_i < Len(b_numbers) THEN "loop" ELSE "done"
    /\ UNCHANGED <<b_numbers, b_cc, b_calls, b_summary, v_vars, p_vars, s_vars>>

\* lines 174-178: results[number] = <what the call returned>; sleep(1) when
\* i < total; then the next element, or line 181 after the last one
bulk_search_store ==
    /\ b_pc = "lookup"
    /\ pc = "returned"
    /\ b_results' = (b_numbers[b_i] :> returned) @@ b_results
    /\ b_delays' = IF b_i < Len(b_numbers) THEN Append(b_delays, b_i) ELSE b_delays
    /\ b_i' = IF b_i < Len(b_numbers) THEN b_i + 1 ELSE b_i
    /\ b_pc' = IF b_i < Len(b_numbers) THEN "loop" ELSE "done"
    /\ UNCHANGED <<b_numbers, b_cc, b_calls, b_summary, v_vars, p_vars, s_vars>>

\* bulk_lookup, lines 550-551.  'error' not in r raises TypeError when r is
\* None, and the summary is then never printed.
Summary(results, phone_numbers) ==
    IF \E n \in DOMAIN results : results[n].is_none
    THEN [raised |-> TRUE, successful |-> 0, failed |-> 0]
    ELSE LET successful ==
                 Cardinality({n \in DOMAIN results : "error" \notin DOMAIN results[n].dict})
         IN [raised |-> FALSE,
             successful |-> successful,
             failed |-> Len(phone_numbers) - successful]

\* bulk_lookup, lines 534-551: only a non-empty batch is searched and summed up
bulk_lookup_summary ==
    /\ b_pc = "done"
    /\ b_numbers # <<>>
    /\ b_summary' = Summary(b_results, b_numbers)
    /\ b_pc' = "summarised"
    /\ UNCHANGED <<b_numbers, b_cc, b_i, b_results, b_calls, b_delays,
                   v_vars, p_vars, s_vars>>

BulkSpecInit == ValidateOff /\ ParseOff /\ DisplayOff /\ SearchInit /\ BulkInit

BulkNext ==
    \/ /\ \E phone_numbers \in SeqsUpTo(BulkNumbers, MaxBatch), cc \in BulkHints :
             bulk_search_begin(phone_numbers, cc)
       /\ UNCHANGED d_vars
    \/ bulk_search_call /\ UNCHANGED d_vars
    \/ b_pc = "lookup" /\ try_endpoint(BulkOutcomes) /\ UNCHANGED <<b_vars, d_vars>>
    \/ b_pc = "lookup" /\ search_number_return /\ UNCHANGED <<b_vars, d_vars>>
    \/ bulk_search_store /\ UNCHANGED d_vars
    \/ bulk_lookup_summary /\ UNCHANGED d_vars

SpecBulk == BulkSpecInit /\ [][BulkNext]_vars

(***************************************************************************)
(* validate_phone_number applied to a raw input, and applied again to the  *)
(* value it returned.                                                      *)
(***************************************************************************)
ValidateInit ==
    /\ ParseOff
    /\ SearchOff
    /\ BulkOff
    /\ DisplayOff
    /\ v_pc = "input"
    /\ v_number \in RawNumbers
    /\ v_first = NotRun
    /\ v_second = NotRun

Validate ==
    /\ v_pc = "input"
    /\ v_first' = validate_phone_number(v_number)
    /\ v_pc' = "validated"
    /\ UNCHANGED <<v_number, v_second, p_vars, s_vars, b_vars, d_vars>>

Revalidate ==
    /\ v_pc = "validated"
    /\ v_first.is_valid
    /\ v_second' = validate_phone_number(v_first.cleaned)
    /\ v_pc' = "revalidated"
    /\ UNCHANGED <<v_number, v_first, p_vars, s_vars, b_vars, d_vars>>

ValidateNext == Validate \/ Revalidate

SpecValidate == ValidateInit /\ [][ValidateNext]_vars

(***************************************************************************)
(* _parse_response applied to a decoded body.                              *)
(***************************************************************************)
ParseInit ==
    /\ ValidateOff
    /\ SearchOff
    /\ BulkOff
    /\ DisplayOff
    /\ p_pc = "input"
    /\ \/ p_data \in PlainBodies
       \/ \E n \in NameOpts, ph \in PhoneOpts, a \in AddressOpts,
             i \in InternetOpts, sc \in ScoreOpts :
              \/ \E rest \in SeqsUpTo(LaterCandidates, MaxRest) :
                    p_data = ArrayBody(Candidate(n, ph, a, i, sc), rest)
              \/ p_data = ObjectBody(Candidate(n, ph, a, i, sc))
    /\ p_number \in SearchedNumbers
    /\ p_now \in Timestamps
    /\ p_result = EmptyDict

Parse ==
    /\ p_pc = "input"
    /\ p_result' = _parse_response(p_data, p_number, p_now)
    /\ p_pc' = "parsed"
    /\ UNCHANGED <<p_data, p_number, p_now, v_vars, s_vars, b_vars, d_vars>>

ParseNext == Parse

SpecParse == ParseInit /\ [][ParseNext]_vars

(***************************************************************************)
(* display_result applied to a result whose first data entry carries the   *)
(* scores.                                                                 *)
(***************************************************************************)
DisplayInit ==
    /\ ValidateOff
    /\ ParseOff
    /\ SearchOff
    /\ BulkOff
    /\ d_pc = "input"
    /\ \/ d_result \in {None, Dict(EmptyDict), Dict(Error("Request timeout")),
                        Dict([data |-> <<>>]), Dict([searched_number |-> <<"+">>])}
       \/ \E sp \in SpamOpts, co \in ConfidenceOpts :
             d_result = Dict([data |-> <<sp @@ co>>])
    /\ d_shown = NothingShown

Display ==
    /\ d_pc = "input"
    /\ d_shown' = display_result(d_result)
    /\ d_pc' = "shown"
    /\ UNCHANGED <<d_result, v_vars, p_vars, s_vars, b_vars>>

DisplayNext == Display

SpecDisplay == DisplayInit /\ [][DisplayNext]_vars

(***************************************************************************)
(* Properties of validate_phone_number (checked under SpecValidate).       *)
(***************************************************************************)

\* C1: normalization is idempotent: validating a value that was returned as
\* valid succeeds again and returns exactly that value.
C1_Idempotent ==
    v_pc = "revalidated" =>
        /\ v_second.is_valid
        /\ v_second.cleaned = v_first.cleaned

\* a raw input that was rewritten (a calling code was added) and re-validated
C1_Witness ==
    /\ v_pc = "revalidated"
    /\ v_first.cleaned # v_number
    /\ v_first.cleaned # <<"+">> \o StripNonDigitPlus(v_number)

\* C2: every value returned as valid starts with '+' and has only ASCII
\* digits after that first character.
C2_PlusThenAsciiDigits ==
    (v_pc # "input" /\ v_first.is_valid) =>
        /\ v_first.cleaned[1] = "+"
        /\ \A i \in 2..Len(v_first.cleaned) : v_first.cleaned[i] \in AsciiDigits

\* C3: no value is returned as valid whose length (counting the '+') is below
\* 10 or above 15.
C3_LengthInRange ==
    (v_pc # "input" /\ v_first.is_valid) =>
        /\ Len(v_first.cleaned) >= 10
        /\ Len(v_first.cleaned) <= 15

(***************************************************************************)
(* Properties of search_number (checked under Spec).                       *)
(***************************************************************************)
InCall == pc \in {"endpoints", "after_loop"}

\* the raw input is exactly 11 ASCII digits and starts with 01
IsLocal01(number) ==
    /\ Len(number) = 11
    /\ startswith(number, <<"0", "1">>)
    /\ \A i \in DOMAIN number : number[i] \in AsciiDigits

\* C4: for an 11-digit input starting with 01 and the hint BD, the number in
\* the outbound payload is +880 followed by the input without its leading 0.
C4_BDLocalToCanonical ==
    (pc # "ready" /\ country_code = "BD" /\ IsLocal01(phone_number)) =>
        /\ cleaned_number = <<"+", "8", "8", "0">> \o SliceFrom(phone_number, 1)
        /\ pc \in {"after_loop", "returned"} => requests_sent # <<>>
        /\ \A i \in DOMAIN requests_sent :
             requests_sent[i].q = <<"+", "8", "8", "0">> \o SliceFrom(phone_number, 1)

\* such a lookup has gone through all three endpoints
C4_Witness ==
    /\ pc = "returned"
    /\ country_code = "BD"
    /\ IsLocal01(phone_number)
    /\ Len(requests_sent) = 3

\* C5: when an input without a leading '+' is turned into more than '+' and
\* its own digits, the number sent carries the calling code of the hint.
C5_CallingCodeOfHint ==
    (/\ InCall
     /\ ~startswith(StripNonDigitPlus(phone_number), <<"+">>)
     /\ cleaned_number # <<"+">> \o StripNonDigitPlus(phone_number))
    => startswith(cleaned_number, <<"+">> \o CallingCode[country_code])

\* C6: every lookup returns a result record or an error outcome, and a number
\* that fails validation returns an error outcome with a message.
C6_InvalidReturnsError ==
    pc = "returned" =>
        /\ ~returned.is_none
        /\ ~validate_phone_number(phone_number).is_valid
              => "error" \in DOMAIN returned.dict

\* C7: a call with a number that fails validation ends at once, has issued no
\* request and leaves the request counter as it was.
C7_InvalidHandledLocally ==
    [][(pc \in {"ready", "returned"}
        /\ ~validate_phone_number(phone_number').is_valid)
       => (/\ pc' = "returned"
           /\ requests_sent' = <<>>
           /\ response' = NoResponse
           /\ request_count' = request_count)]_vars

\* an invalid number was looked up on an instance that had counted requests
C7_Witness ==
    /\ pc = "returned"
    /\ ~validate_phone_number(phone_number).is_valid
    /\ request_count > 0
    /\ requests_sent = <<>>

\* C10: 404 gives the number-not-found error, 429 the rate-limited error and
\* any other non-2xx status an upstream error naming the status.
C10_StatusMapping ==
    (pc = "returned" /\ response.t = "Response") =>
        /\ response.status_code = 404
              => returned.dict = Error("Number not found in Truecaller database")
        /\ response.status_code = 429
              => returned.dict = Error("Rate limited - try again later")
        /\ (response.status_code \notin 200..299
            /\ response.status_code \notin {404, 429})
              => returned.dict =
                   Error("API returned status " \o ToString(response.status_code))

\* C11: when every endpoint attempt of a lookup ends in a transport failure,
\* all endpoints have been tried and the unreachable error is returned.
C11_AllTransportFailures ==
    (pc = "returned" /\ requests_sent # <<>> /\ response = NoResponse) =>
        /\ Len(requests_sent) = Len(Endpoints)
        /\ returned = Dict(Error("All API endpoints failed"))

\* three attempts, none of which brought a response
C11_Witness ==
    /\ pc = "returned"
    /\ Len(requests_sent) = 3
    /\ response = NoResponse
    /\ ~returned.is_none

\* C15: the endpoints are contacted in the fixed order, each at most once, and
\* none is contacted after one has answered with status 200.
C15_FixedOrderStopAt200 ==
    /\ Len(requests_sent) <= Len(Endpoints)
    /\ \A i \in DOMAIN requests_sent : requests_sent[i].endpoint = Endpoints[i]
    /\ (response.t = "Response" /\ response.status_code = 200) => pc # "endpoints"

\* the primary failed and the first fallback answered 200: two requests
C15_Witness ==
    /\ pc = "returned"
    /\ Len(requests_sent) = 2
    /\ response.t = "Response" /\ response.status_code = 200

\* C16: once an endpoint has answered with the terminal status 404 or 429, no
\* further request is issued for that lookup.
C16_NoRequestAfterTerminalStatus ==
    [][(response.t = "Response" /\ response.status_code \in {404, 429})
       => Len(requests_sent') <= Len(requests_sent)]_vars

\* C19: the request counter never decreases, grows by exactly one on a lookup
\* that passes validation, and the pause is applied exactly on the lookups that
\* bring it to a multiple of 3, before any endpoint is contacted.
C19_CounterAndThrottle ==
    [][IF pc \in {"ready", "returned"}
       THEN IF validate_phone_number(phone_number').is_valid
            THEN /\ request_count' = request_count + 1
                 /\ throttled' = (request_count' % 3 = 0)
                 /\ requests_sent' = <<>>
            ELSE /\ request_count' = request_count
                 /\ throttled' = FALSE
       ELSE /\ request_count' = request_count
            /\ throttled' = throttled]_vars

\* the third counted lookup paused and then went on to the endpoints
C19_Witness ==
    /\ throttled
    /\ request_count = 3
    /\ requests_sent # <<>>

(***************************************************************************)
(* Properties of _parse_response (checked under SpecParse).                *)
(***************************************************************************)
DataIsObject == HasKey(p_data, "data") /\ p_data.v.data.t = "object"

DataIsCandidateArray ==
    /\ HasKey(p_data, "data")
    /\ p_data.v.data.t = "array"
    /\ Len(p_data.v.data.v) > 0
    /\ p_data.v.data.v[1].t = "object"

\* the candidate supplied a non-empty name, carrier, city or e-mail
Informative(c) ==
    \/ "name" \in DOMAIN c /\ c.name # ""
    \/ /\ "phones" \in DOMAIN c /\ c.phones # <<>>
       /\ "carrier" \in DOMAIN c.phones[1] /\ c.phones[1].carrier # ""
    \/ /\ "addresses" \in DOMAIN c /\ c.addresses # <<>>
       /\ "city" \in DOMAIN c.addresses[1] /\ c.addresses[1].city # ""
    \/ /\ "internetAddresses" \in DOMAIN c
       /\ \E i \in DOMAIN c.internetAddresses : IsEmailId(c.internetAddresses[i])

\* C8: a 'data' that is a single candidate object is parsed exactly as the
\* one-element array holding that object.
C8_SingleObjectAsCandidate ==
    (p_pc = "parsed" /\ DataIsObject /\ Truthy(p_data.v.data)) =>
        p_result = _parse_response(JObject([data |-> JArray(<<p_data.v.data>>)]),
                                   p_number, p_now)

\* C9: a record is returned only for a candidate that supplied a non-empty
\* name, carrier, city or e-mail; any other candidate gets the error.
C9_Informativeness ==
    (p_pc = "parsed" /\ DataIsCandidateArray) =>
        LET c == p_data.v.data.v[1].v IN
        /\ "error" \notin DOMAIN p_result => Informative(c)
        /\ ~Informative(c) => p_result = Error("No identifiable information found")

\* the same body with every candidate after the first one removed
FirstOnly(body) == JObject([data |-> JArray(<<body.v.data.v[1]>>)])

\* C20: the outcome depends only on the first element of the 'data' array:
\* a body gives what the body cut down to its first candidate gives.
C20_FirstMatchOnly ==
    (p_pc = "parsed" /\ DataIsCandidateArray) =>
        p_result = _parse_response(FirstOnly(p_data), p_number, p_now)

\* a record extracted from a body that holds a second, different candidate
C20_Witness ==
    /\ p_pc = "parsed"
    /\ DataIsCandidateArray
    /\ Len(p_data.v.data.v) >= 2
    /\ p_data.v.data.v[2] # p_data.v.data.v[1]
    /\ "error" \notin DOMAIN p_result

(***************************************************************************)
(* Properties of display_result (checked under SpecDisplay).               *)
(***************************************************************************)
HasScores ==
    /\ ~d_result.is_none
    /\ "data" \in DOMAIN d_result.dict
    /\ d_result.dict.data # <<>>
    /\ "spamScore" \in DOMAIN d_result.dict.data[1]
    /\ "score" \in DOMAIN d_result.dict.data[1]

\* C14: spam score s is banded high iff s > 70, medium iff 40 < s <= 70, clean
\* iff s <= 40; confidence c is banded high iff c > 80, medium iff
\* 60 < c <= 80, low iff c <= 60.
C14_Banding ==
    (d_pc = "shown" /\ HasScores) =>
        LET s == d_result.dict.data[1].spamScore
            c == d_result.dict.data[1].score
        IN /\ d_shown.printed = "results"
           /\ d_shown.spam_status = "HIGH SPAM" <=> s > 70
           /\ d_shown.spam_status = "MEDIUM SPAM" <=> (40 < s /\ s <= 70)
           /\ d_shown.spam_status = "CLEAN" <=> s <= 40
           /\ d_shown.score_color = "success" <=> c > 80
           /\ d_shown.score_color = "warning" <=> (60 < c /\ c <= 80)
           /\ d_shown.score_color = "error" <=> c <= 60

\* both scores sit on the upper edge of the middle band
C14_Witness ==
    /\ d_pc = "shown"
    /\ HasScores
    /\ d_result.dict.data[1].spamScore = 70
    /\ d_result.dict.data[1].score = 80
    /\ d_shown.spam_status = "MEDIUM SPAM"
    /\ d_shown.score_color = "warning"

(***************************************************************************)
(* Properties of bulk_search and of the bulk summary (checked under        *)
(* SpecBulk).                                                              *)
(***************************************************************************)
BulkReturned == b_pc \in {"done", "summarised"}

\* a lookup whose outcome is not a record: None or a dict with an 'error' key
Failure(r) == r.is_none \/ "error" \in DOMAIN r.dict

\* C12: bulk_search over N raw numbers returns exactly N outcomes, one per
\* input element, also when the same raw number appears more than once.
C12_OneOutcomePerInput ==
    BulkReturned => Cardinality(DOMAIN b_results) = Len(b_numbers)

NormalizationFailures ==
    Cardinality({k \in DOMAIN b_numbers : ~validate_phone_number(b_numbers[k]).is_valid})

\* C13: for N inputs of which M fail normalization the bulk summary completes
\* and reports successful + failed = N, the M normalization failures being
\* among the failed.
C13_SummaryCompletes ==
    b_pc = "summarised" =>
        /\ ~b_summary.raised
        /\ b_summary.successful + b_summary.failed = Len(b_numbers)
        /\ b_summary.failed >= NormalizationFailures

\* C17: bulk_search invokes search_number once per input, one call at a time
\* and in input order; a failed lookup never keeps a later input from being
\* attempted.
C17_OncePerInputInOrder ==
    /\ b_pc = "loop" =>
          /\ b_calls = SubSeq(b_numbers, 1, b_i - 1)
          /\ pc \in {"ready", "returned"}
    /\ b_pc = "lookup" => b_calls = SubSeq(b_numbers, 1, b_i)
    /\ BulkReturned => b_calls = b_numbers

\* the first two lookups of a batch of three failed and the third was made
C17_Witness ==
    /\ b_pc = "done"
    /\ Len(b_numbers) = 3
    /\ Len(b_calls) = 3
    /\ b_numbers[1] # b_numbers[3]
    /\ b_numbers[2] # b_numbers[3]
    /\ b_results[b_numbers[1]].is_none
    /\ Failure(b_results[b_numbers[2]])
    /\ ~b_results[b_numbers[2]].is_none
    /\ ~Failure(b_results[b_numbers[3]])

\* C18: over N >= 1 inputs the inter-request delay is applied exactly N-1
\* times, the i-th after lookup i has completed and before lookup i+1 starts,
\* and never after the last lookup.
C18_DelayBetweenLookups ==
    /\ \A k \in DOMAIN b_delays : b_delays[k] = k
    /\ b_pc = "loop" => Len(b_delays) = Len(b_calls)
    /\ b_pc = "lookup" => Len(b_delays) = Len(b_calls) - 1
    /\ (BulkReturned /\ b_numbers # <<>>) =>
          /\ Len(b_delays) = Len(b_numbers) - 1
          /\ Len(b_calls) = Len(b_numbers)

C18_Witness ==
    /\ b_pc = "done"
    /\ Len(b_numbers) = 3
    /\ b_delays = <<1, 2>>

(***************************************************************************)
(* The Bangladesh fix of search_number (checked under Spec).               *)
(***************************************************************************)
\* the number validate_phone_number hands to the fix begins with +0
ValidatedPlusZero(number) ==
    /\ validate_phone_number(number).is_valid
    /\ startswith(validate_phone_number(number).cleaned, <<"+", "0">>)

\* C21: for the hint BD, when the validated number begins with +0 and the fix
\* removes that zero, the number sent upstream is +880 followed by the
\* remaining digits.
C21_BDFixGivesCallingCode ==
    (pc # "ready" /\ country_code = "BD" /\ ValidatedPlusZero(phone_number)) =>
        LET rest == SliceFrom(validate_phone_number(phone_number).cleaned, 2)
        IN /\ cleaned_number = <<"+", "8", "8", "0">> \o rest
           /\ \A i \in DOMAIN requests_sent :
                requests_sent[i].q = <<"+", "8", "8", "0">> \o rest

====
